---- MODULE Spec2Model ----
(***************************************************************************)
(* A model of the library_system example: the Book entity                  *)
(* (src/models/book.py) and the validators                                 *)
(* (src/services/book_validator.py).                                       *)
(*                                                                         *)
(* Four specifications share the module, one per unit of the program:      *)
(*   Spec       a Book under any sequence of check_out / return_book calls *)
(*   SpecFee    calculate_late_fee applied to one input                    *)
(*   SpecIsbn   is_valid_isbn applied to one input string                  *)
(*   SpecTitle  is_valid_title applied to one input string                 *)
(*                                                                         *)
(* Conventions.  Python's Optional[T] is a sequence: None is << >> and a   *)
(* value x is <<x>>.  A str is a sequence of one-character strings.  A     *)
(* datetime is an integer number of clock ticks, TicksPerDay of them per   *)
(* day.  Money is an integer number of cents (every fee the code computes  *)
(* is a multiple of 0.50, which binary floating point represents exactly). *)
(***************************************************************************)
EXTENDS Integers, Sequences, FiniteSets

VARIABLES
    book,           \* the Book instance: isbn, title, author, is_available, due_date
    created,        \* the book as the constructor returned it
    now,            \* what datetime.now() returns, in ticks
    op,             \* the last method called on the book ("new" after creation)
    arg,            \* the argument list of that call
    called_at,      \* the clock when that call was made
    prev,           \* the book as it was when that call was made
    ret,            \* the value that call returned (None when it raised)
    raised,         \* the exception that call raised (NoError when it returned)
    days_overdue,   \* the input of calculate_late_fee
    fee,            \* its result, in cents (None before the call)
    isbn_in,        \* the input of is_valid_isbn
    isbn_ok,        \* its result (None before the call)
    title_in,       \* the input of is_valid_title
    title_ok        \* its result (None before the call)

bookVars == <<book, created, now, op, arg, called_at, prev, ret, raised>>
feeVars == <<days_overdue, fee>>
isbnVars == <<isbn_in, isbn_ok>>
titleVars == <<title_in, title_ok>>
vars == <<book, created, now, op, arg, called_at, prev, ret, raised,
          days_overdue, fee, isbn_in, isbn_ok, title_in, title_ok>>

None == << >>
Some(x) == <<x>>

(***************************************************************************)
(* Bounds of the model.                                                    *)
(***************************************************************************)
\* check_out is called with return_days in -MaxDays..MaxDays, or with none.
MaxDays == 2
\* The book is created at the start of day StartDay (2026-11-02) ...
StartDay == 739921
\* ... and the clock runs for MaxNow ticks from then.
MaxNow == 3
\* Clock ticks per day: the resolution of a datetime in the model.
TicksPerDay == 2
\* calculate_late_fee is applied to -MaxOverdue..MaxOverdue.
MaxOverdue == 100
\* An ISBN input holds at most MaxDigits digits ...
MaxDigits == 14
\* ... and at most MaxNonDigits other characters (hyphens, spaces, letters).
MaxNonDigits == 3
\* A title input holds at most MaxPad whitespace characters on each side ...
MaxPad == 2
\* ... of at most MaxBody letters.
MaxBody == 202

(***************************************************************************)
(* models/book.py                                                          *)
(***************************************************************************)
NoError == "no error"
ValueError == "ValueError: Book is already checked out"
OverflowError == "OverflowError"

\* return_days: int = 14
DefaultReturnDays == 14

\* timedelta(days=n) raises OverflowError unless |n| <= 999999999.
MaxTimedeltaDays == 999999999
\* A datetime lies between datetime.min, the start of day 0 of the model
\* (0001-01-01), and datetime.max, the end of day NumDays - 1 (9999-12-31).
NumDays == 3652059

\* Book(isbn, title, author): the dataclass's __init__ with its defaults.
Book(isbn, title, author) ==
    [isbn |-> isbn, title |-> title, author |-> author,
     is_available |-> TRUE, due_date |-> None]

\* timedelta(days=n), in ticks.
timedelta(days) == days * TicksPerDay

\* Mutant: return_days is added to the clock as it is, not as a timedelta.
stamp_no_timedelta(clock, return_days) ==
    IF \/ return_days > MaxTimedeltaDays
       \/ 0 - return_days > MaxTimedeltaDays
       \/ clock + return_days < 0
       \/ clock + return_days >= NumDays * TicksPerDay
    THEN None
    ELSE Some(clock + return_days)

\* Mutant: the timedelta is subtracted from the clock.
stamp_subtracts(clock, return_days) ==
    IF \/ return_days > MaxTimedeltaDays
       \/ 0 - return_days > MaxTimedeltaDays
       \/ clock - timedelta(return_days) < 0
       \/ clock - timedelta(return_days) >= NumDays * TicksPerDay
    THEN None
    ELSE Some(clock - timedelta(return_days))

\* datetime.now() + timedelta(days=return_days) with the clock at `clock`:
\* the datetime, or None when timedelta() or the addition raises
\* OverflowError.
stamp(clock, return_days) ==
    IF \/ return_days > MaxTimedeltaDays
       \/ 0 - return_days > MaxTimedeltaDays
       \/ clock + timedelta(return_days) < 0
       \/ clock + timedelta(return_days) >= NumDays * TicksPerDay
    THEN None
    ELSE Some(clock + timedelta(return_days))

\* Mutant: the guard on is_available is missing.
check_out_no_guard(self, args, clock) ==
    LET return_days == IF args = << >> THEN DefaultReturnDays ELSE args[1]
        self1 == [self EXCEPT !.is_available = FALSE]
        due == stamp(clock, return_days)
    IN  IF due = None
        THEN [self |-> self1, ret |-> None, raised |-> OverflowError]
        ELSE LET self2 == [self1 EXCEPT !.due_date = due]
             IN  [self |-> self2, ret |-> self2.due_date, raised |-> NoError]

\* Book.check_out(*args) with the clock at `clock`: the book afterwards, the
\* value returned and the exception raised.  is_available is assigned before
\* the due date is computed, so an OverflowError leaves it assigned.
check_out(self, args, clock) ==
    LET return_days == IF args = << >> THEN DefaultReturnDays ELSE args[1]
    IN  IF ~self.is_available
        THEN [self |-> self, ret |-> None, raised |-> ValueError]
        ELSE LET self1 == [self EXCEPT !.is_available = FALSE]
                 due == stamp(clock, return_days)
             IN  IF due = None
                 THEN [self |-> self1, ret |-> None, raised |-> OverflowError]
                 ELSE LET self2 == [self1 EXCEPT !.due_date = due]
                      IN  [self |-> self2, ret |-> self2.due_date, raised |-> NoError]

\* Mutant: is_available is not reset.
return_book_stays_unavailable(self) ==
    LET self1 == [self EXCEPT !.due_date = None]
    IN  [self |-> self1, ret |-> None, raised |-> NoError]

\* Mutant: is_available is toggled instead of set.
return_book_toggles(self) ==
    LET self1 == [self EXCEPT !.is_available = ~self.is_available]
        self2 == [self1 EXCEPT !.due_date = None]
    IN  [self |-> self2, ret |-> None, raised |-> NoError]

\* Book.return_book(): the book afterwards, the value returned, the exception.
return_book(self) ==
    LET self1 == [self EXCEPT !.is_available = TRUE]
        self2 == [self1 EXCEPT !.due_date = None]
    IN  [self |-> self2, ret |-> None, raised |-> NoError]

Isbns == {"1234567890", "123-456-789-0"}
Titles == {"Test Book"}
Authors == {"Test Author"}
\* The argument lists of check_out: none, a few days either way, and
\* numbers of days whose due date no datetime or timedelta can hold.
FarDays == {-1000000000, -800000, 3000000, 1000000000}
DayArgs == {<< >>} \cup {<<d>> : d \in ((0 - MaxDays)..MaxDays) \cup FarDays}
\* The clock when the book is created.
StartTick == StartDay * TicksPerDay

InitBook ==
    /\ book \in {Book(i, t, a) : i \in Isbns, t \in Titles, a \in Authors}
    /\ created = book
    /\ now = StartTick
    /\ op = "new"
    /\ arg = << >>
    /\ called_at = StartTick
    /\ prev = book
    /\ ret = None
    /\ raised = NoError

IdleBook ==
    /\ book = Book("1234567890", "Test Book", "Test Author")
    /\ created = book
    /\ now = StartTick
    /\ op = "new"
    /\ arg = << >>
    /\ called_at = StartTick
    /\ prev = book
    /\ ret = None
    /\ raised = NoError

IdleFee == days_overdue = 0 /\ fee = None
IdleIsbn == isbn_in = << >> /\ isbn_ok = None
IdleTitle == title_in = << >> /\ title_ok = None

\* A caller calls book.check_out(...) with some argument list.
CheckOut ==
    /\ \E args \in DayArgs :
          LET r == check_out(book, args, now)
          IN  /\ book' = r.self
              /\ ret' = r.ret
              /\ raised' = r.raised
              /\ arg' = args
    /\ op' = "check_out"
    /\ called_at' = now
    /\ prev' = book
    /\ UNCHANGED <<created, now, feeVars, isbnVars, titleVars>>

\* A caller calls book.return_book().
ReturnBook ==
    /\ LET r == return_book(book)
       IN  /\ book' = r.self
           /\ ret' = r.ret
           /\ raised' = r.raised
    /\ op' = "return_book"
    /\ arg' = << >>
    /\ called_at' = now
    /\ prev' = book
    /\ UNCHANGED <<created, now, feeVars, isbnVars, titleVars>>

\* Time passes between calls.
Tick ==
    /\ now < StartTick + MaxNow
    /\ now' = now + 1
    /\ UNCHANGED <<book, created, op, arg, called_at, prev, ret, raised,
                   feeVars, isbnVars, titleVars>>


(***************************************************************************)
(* services/book_validator.py                                              *)
(***************************************************************************)
\* BASE_FEE = 0.50 and MAX_FEE = 20.00, in cents.
BASE_FEE == 50
MAX_FEE == 2000

\* Python's min(a, b): the first of the smallest.
min(a, b) == IF b < a THEN b ELSE a

\* Mutant: the fee is not capped.
calculate_late_fee_no_cap(days) ==
    LET fee1 == days * BASE_FEE
    IN  fee1

\* calculate_late_fee(days_overdue), in cents.
calculate_late_fee(days) ==
    LET fee1 == days * BASE_FEE
    IN  min(fee1, MAX_FEE)

\* The characters of the model: str.isdigit() holds of the digits alone.
Digits == {"0", "1", "2", "3", "4", "5", "6", "7", "8", "9"}
Whitespace == {" ", "\t"}

\* s.replace(old, ""), old one character long.
remove(s, old) == SelectSeq(s, LAMBDA c : c # old)

\* s.isdigit(): every character is a digit and there is at least one.
isdigit(s) == Len(s) > 0 /\ \A i \in 1..Len(s) : s[i] \in Digits

\* len(isbn) not in (10, 13)
IsbnLengths == {10, 13}

\* Mutant: the spaces are not removed.
is_valid_isbn_keeps_spaces(isbn) ==
    LET isbn1 == remove(isbn, "-")
    IN  IF Len(isbn1) \notin IsbnLengths
        THEN FALSE
        ELSE isdigit(isbn1)

\* is_valid_isbn(isbn)
is_valid_isbn(isbn) ==
    LET isbn1 == remove(remove(isbn, "-"), " ")
    IN  IF Len(isbn1) \notin IsbnLengths
        THEN FALSE
        ELSE isdigit(isbn1)

\* s.strip(): s without its leading and trailing whitespace.
strip(s) ==
    LET keep == {i \in 1..Len(s) : s[i] \notin Whitespace}
    IN  IF keep = {}
        THEN << >>
        ELSE LET first == CHOOSE i \in keep : \A j \in keep : i <= j
                 last == CHOOSE i \in keep : \A j \in keep : j <= i
             IN  SubSeq(s, first, last)

\* len(title) <= 200
MaxTitleLength == 200

\* Mutant: the length is taken after trimming.
is_valid_title_trims_first(title) ==
    Len(strip(title)) # 0 /\ Len(strip(title)) <= MaxTitleLength

\* is_valid_title(title)
is_valid_title(title) ==
    Len(strip(title)) # 0 /\ Len(title) <= MaxTitleLength

(***************************************************************************)
(* calculate_late_fee applied to one input.                                *)
(***************************************************************************)
InitFee ==
    /\ days_overdue \in (0 - MaxOverdue)..MaxOverdue
    /\ fee = None

CalculateLateFee ==
    /\ fee = None
    /\ fee' = Some(calculate_late_fee(days_overdue))
    /\ UNCHANGED <<days_overdue, bookVars, isbnVars, titleVars>>

FeeInit == IdleBook /\ InitFee /\ IdleIsbn /\ IdleTitle
FeeNext == CalculateLateFee
SpecFee == FeeInit /\ [][FeeNext]_vars

(***************************************************************************)
(* is_valid_isbn applied to one input string.  The caller composes the     *)
(* string one character at a time: the digits 1, 2, ..., 9, 0, 1, ... in   *)
(* turn, with hyphens, spaces and letters put anywhere between them.       *)
(***************************************************************************)
NonDigits == {"-", " ", "a"}
DigitCycle == <<"1", "2", "3", "4", "5", "6", "7", "8", "9", "0">>

NumDigits(s) == Len(SelectSeq(s, LAMBDA c : c \in Digits))

TypeDigit ==
    /\ isbn_ok = None
    /\ NumDigits(isbn_in) < MaxDigits
    /\ isbn_in' = Append(isbn_in, DigitCycle[(NumDigits(isbn_in) % Len(DigitCycle)) + 1])
    /\ UNCHANGED <<isbn_ok, bookVars, feeVars, titleVars>>

TypeNonDigit ==
    /\ isbn_ok = None
    /\ Len(isbn_in) - NumDigits(isbn_in) < MaxNonDigits
    /\ \E c \in NonDigits : isbn_in' = Append(isbn_in, c)
    /\ UNCHANGED <<isbn_ok, bookVars, feeVars, titleVars>>

ValidateIsbn ==
    /\ isbn_ok = None
    /\ isbn_ok' = Some(is_valid_isbn(isbn_in))
    /\ UNCHANGED <<isbn_in, bookVars, feeVars, titleVars>>

IsbnInit == IdleBook /\ IdleFee /\ IdleIsbn /\ IdleTitle
IsbnNext == TypeDigit \/ TypeNonDigit \/ ValidateIsbn
SpecIsbn == IsbnInit /\ [][IsbnNext]_vars

(***************************************************************************)
(* is_valid_title applied to one input string: a word of letters between   *)
(* two runs of whitespace.                                                 *)
(***************************************************************************)
Pads == UNION {[1..k -> Whitespace] : k \in 0..MaxPad}
Body(n) == [i \in 1..n |-> "A"]
TitleInputs == {lead \o Body(n) \o trail : lead \in Pads, n \in 0..MaxBody, trail \in Pads}

InitTitle ==
    /\ title_in \in TitleInputs
    /\ title_ok = None

ValidateTitle ==
    /\ title_ok = None
    /\ title_ok' = Some(is_valid_title(title_in))
    /\ UNCHANGED <<title_in, bookVars, feeVars, isbnVars>>

TitleInit == IdleBook /\ IdleFee /\ IdleIsbn /\ InitTitle
TitleNext == ValidateTitle
SpecTitle == TitleInit /\ [][TitleNext]_vars

Init == InitBook /\ IdleFee /\ IdleIsbn /\ IdleTitle
Next == CheckOut \/ ReturnBook \/ Tick
Spec == Init /\ [][Next]_vars

(***************************************************************************)
(* Properties of the Book (checked under Spec).                            *)
(***************************************************************************)
\* The number of days a check_out call with argument list a asked for.
DaysOf(a) == IF a = << >> THEN 14 ELSE a[1]

\* Whether the clock reading t plus d days is a datetime: d is a timedelta
\* and the sum lies between datetime.min and datetime.max.
Representable(t, d) ==
    /\ d <= 999999999
    /\ d >= -999999999
    /\ t + d * TicksPerDay >= 0
    /\ t + d * TicksPerDay < 3652059 * TicksPerDay

\* C1: in every state reachable from a newly created Book by check_out and
\* return_book calls (failed check_out calls included), due_date is set if
\* and only if is_available is false.
C1_DueDateIffUnavailable ==
    (book.due_date # None) <=> ~book.is_available

\* C2: check_out on a book that is not available raises the ValueError for
\* every value of days and leaves every field of the book as it was; in
\* particular due_date is not re-stamped.
C2_FailedCheckOutChangesNothing ==
    (op = "check_out" /\ ~prev.is_available) =>
        /\ raised = ValueError
        /\ ret = None
        /\ book = prev

\* A second check_out has failed at a time and with a days value that would
\* have stamped another due date.
C2_Witness ==
    /\ op = "check_out"
    /\ ~prev.is_available
    /\ prev.due_date # None
    /\ raised = ValueError
    /\ Representable(called_at, DaysOf(arg))
    /\ book.due_date # Some(called_at + DaysOf(arg) * TicksPerDay)

\* C3 as stated: check_out on an available book always succeeds; afterwards
\* is_available is false, due_date is the time of the call plus exactly
\* `days` days (14 when days is omitted) and the value returned is the
\* stored due_date.
C3_CheckOutAlwaysSucceeds ==
    (op = "check_out" /\ prev.is_available) =>
        /\ raised = NoError
        /\ ~book.is_available
        /\ book.due_date = Some(called_at + DaysOf(arg) * TicksPerDay)
        /\ ret = book.due_date

\* C3 as amended: check_out on an available book succeeds exactly when the
\* time of the call plus `days` days (14 when days is omitted) is a
\* datetime; then is_available is false, due_date is that datetime, the
\* value returned is the stored due_date and isbn, title and author are
\* untouched.  Otherwise it raises OverflowError.
C3_CheckOutStampsDueDate ==
    (op = "check_out" /\ prev.is_available) =>
        IF Representable(called_at, DaysOf(arg))
        THEN /\ raised = NoError
             /\ ~book.is_available
             /\ book.due_date = Some(called_at + DaysOf(arg) * TicksPerDay)
             /\ ret = book.due_date
             /\ book.isbn = prev.isbn
             /\ book.title = prev.title
             /\ book.author = prev.author
        ELSE /\ raised = OverflowError
             /\ ret = None

\* A check_out without argument has succeeded, some time after creation.
C3_Witness ==
    /\ op = "check_out"
    /\ prev.is_available
    /\ arg = << >>
    /\ called_at > StartTick
    /\ raised = NoError
    /\ ret = Some(called_at + 14 * TicksPerDay)

\* C4: return_book after a check_out restores the state the book was
\* created in, whatever days was and however many cycles came before.
C4_ReturnRestoresInitialState ==
    (op = "return_book" /\ ~prev.is_available) =>
        /\ book = created
        /\ book.is_available
        /\ book.due_date = None

\* A checked-out book has just been returned, after the clock has moved.
C4_Witness ==
    /\ op = "return_book"
    /\ ~prev.is_available
    /\ prev.due_date # None
    /\ called_at > StartTick
    /\ book = created

\* C5: return_book never fails, leaves the book available with no due date
\* whatever state it was in, and calling it again changes nothing more.
C5_ReturnBookIdempotent ==
    /\ op = "return_book" =>
          /\ raised = NoError
          /\ book.is_available
          /\ book.due_date = None
    /\ return_book(book).raised = NoError
    /\ return_book(return_book(book).self).self = return_book(book).self

\* return_book has been called on a book that was already available.
C5_Witness ==
    /\ op = "return_book"
    /\ prev.is_available
    /\ prev.due_date = None
    /\ book = prev

\* C10 as stated: every successful check_out, whatever days is (zero and
\* negative values included), stamps and returns a due date strictly later
\* than the call.
C10_DueDateAlwaysInFuture ==
    (op = "check_out" /\ raised = NoError) =>
        /\ book.due_date # None
        /\ ret = book.due_date
        /\ book.due_date[1] > called_at

\* C10 as amended: the due date a successful check_out stamps and returns is
\* later than the call exactly when days is at least 1 (or omitted); with
\* days = 0 it is the time of the call, and with a negative days it is
\* earlier.
C10_DueDateInFutureIffDaysPositive ==
    (op = "check_out" /\ raised = NoError) =>
        /\ book.due_date # None
        /\ ret = book.due_date
        /\ (DaysOf(arg) >= 1) <=> (book.due_date[1] > called_at)
        /\ (DaysOf(arg) = 0) <=> (book.due_date[1] = called_at)
        /\ (DaysOf(arg) < 0) <=> (book.due_date[1] < called_at)

\* A check_out with a positive days has succeeded.
C10_Witness ==
    /\ op = "check_out"
    /\ raised = NoError
    /\ arg # << >>
    /\ DaysOf(arg) >= 1
    /\ book.due_date[1] > called_at

(***************************************************************************)
(* Properties of calculate_late_fee (checked under SpecFee).               *)
(***************************************************************************)
\* C6: the fee floors at 0 for non-positive input: it is 0 for zero and for
\* every negative days_overdue, so it is never negative.
C6_FeeFloorsAtZero ==
    fee # None =>
        /\ fee[1] >= 0
        /\ days_overdue <= 0 => fee[1] = 0

Count(s, S) == Cardinality({i \in 1..Len(s) : s[i] \in S})

\* C8: is_valid_isbn is true exactly when the input, hyphens and spaces
\* apart, holds 10 or 13 characters, all of them digits; where and how many
\* hyphens and spaces there are makes no difference.
C8_IsbnValidIffTenOrThirteenDigits ==
    isbn_ok # None =>
        isbn_ok[1] = (/\ Count(isbn_in, Digits) \in {10, 13}
                      /\ Count(isbn_in, Digits) + Count(isbn_in, {"-", " "}) = Len(isbn_in))

\* "123-456 789-0" has been found valid.
C8_Witness ==
    /\ isbn_in = <<"1", "2", "3", "-", "4", "5", "6", " ", "7", "8", "9", "-", "0">>
    /\ isbn_ok = Some(TRUE)

(***************************************************************************)
(* Properties of is_valid_title (checked under SpecTitle).                 *)
(***************************************************************************)
\* C9: is_valid_title is true exactly when the title holds a character that
\* is not whitespace and its length as passed, before any trimming, is at
\* most 200.
C9_TitleValidIffNonBlankAndAtMost200 ==
    title_ok # None =>
        title_ok[1] = (/\ \E i \in 1..Len(title_in) : title_in[i] \notin Whitespace
                       /\ Len(title_in) <= 200)

\* A title of 201 characters, 200 of them once trimmed, has been found invalid.
C9_Witness ==
    /\ title_ok = Some(FALSE)
    /\ Len(title_in) = 201
    /\ Len(strip(title_in)) = 200

====
